---- MODULE Spec2Model ----
(***************************************************************************)
(* Model of the bash supervisor that startupScript() generates for the     *)
(* standalone pgAdmin container                                            *)
(* (internal/controller/standalone_pgadmin/pod.go, lines 244-299).         *)
(*                                                                         *)
(* The script boots pgAdmin (startScript), then loops (reloadScript):      *)
(* every tick it compares the modification time of the cluster file with   *)
(* that of a pipe it holds open (the watermark), runs loadServerCommand    *)
(* when the file is newer, re-opens the pipe when the command succeeded,   *)
(* and restarts pgAdmin when the recorded pid is gone from /proc.          *)
(* The whole function runs under "bash -ceu", so a failing simple command  *)
(* outside an if-condition ends the shell.                                 *)
(*                                                                         *)
(* The environment (the clock, the writer of the cluster file, the death   *)
(* of pgAdmin, the reuse of a pid) runs concurrently with the script, so   *)
(* the script is modelled one command at a time.                           *)
(***************************************************************************)
EXTENDS Integers, FiniteSets

\* Bounds of the model.
MaxTime == 2        \* the clock runs over 0..MaxTime
MaxPid  == 3        \* at most MaxPid managed processes are started

\* Markers for "no value".
NoFd   == -1        \* the pipe of line 280 is not open yet
NoFile == -1        \* the poll found no cluster file
NoPoll == -2        \* no poll yet
NoPid  == 0         \* the pid file has not been written yet

VARIABLES
  pc,          \* the command the script is at
  now,         \* the clock that stamps files and pipes
  present,     \* the cluster file exists
  mtime,       \* its modification time (0 when absent)
  watermark,   \* the modification time of the pipe /proc/self/fd/${fd}
  pidfile,     \* the content of $PGADMIN4_PIDFILE
  nextPid,     \* the pid the next "pgadmin4 &" gets
  alive,       \* the managed processes in the process table
  foreign,     \* pids of dead managed processes now held by other processes
  \* history of the current and the previous tick
  tickReload,  \* the reload of this tick: "none", "run", "ok", "fail"
  prevReload,  \* tickReload of the tick before
  polled,      \* the modification time this tick's poll saw
  prevPolled,  \* polled of the tick before
  wmAtCheck,   \* the watermark at this tick's poll
  allInc,      \* every poll so far saw the file, each time strictly newer
  stale,       \* a clock-stamped write is not covered by a successful reload
  backdated,   \* the file's time was last set by a back-dating writer
  \* history of the boot
  startFailed, \* the first "pgadmin4 &" could not run pgAdmin (until the
               \* first poll)
  bootFailure, \* the boot command that exited non-zero: "none", "setup",
               \* "reload"
  scen         \* how far the run follows "file unmodified up to the first
               \* poll, then written once": "start", "first", "rewritten",
               \* "second", "third", "off"

vars == <<pc, now, present, mtime, watermark, pidfile, nextPid, alive, foreign,
          tickReload, prevReload, polled, prevPolled, wmAtCheck, allInc, stale,
          backdated, startFailed, bootFailure, scen>>

env   == <<now, present, mtime, alive, foreign, backdated>>
procs == <<pidfile, nextPid, alive, foreign>>
hist  == <<tickReload, prevReload, polled, prevPolled, wmAtCheck, allInc>>
boot  == <<startFailed, bootFailure>>

PcValues == {"setup", "start", "bootRecord", "bootReload", "bootReloadRun",
             "openfd", "wait", "reload", "reset", "stat", "live", "restart",
             "record", "exited"}

\* ------------------------------------------------------------------------
\* The pieces of the script that decide something.

\* The pid of the last background job, "$!".
LastStarted == nextPid - 1

\* The process table, /proc.
ProcTable == alive \cup foreign

\* [ "${cluster_file}" -nt "/proc/self/fd/${fd}" ]: the file exists and is
\* strictly newer than the pipe.
\* Variants of the test: "not older than", "exists", "missing or newer".
NT_NotOlder(p, m, w) == p /\ m >= w
NT_Exists(p, m, w) == p
NT_MissingIsNewer(p, m, w) == ~p \/ m > w
NT(p, m, w) == p /\ m > w

\* bash -e: a simple command that exits non-zero ends the shell.
\* Variant: the script runs without -e.
ErrExit_NoErrexit(rc, next) == next
ErrExit(rc, next) == IF rc = 0 THEN next ELSE "exited"

\* "[ ... ] && loadServerCommand; then": the body runs when the command
\* exits 0; a non-zero exit in an if-condition is not an error under -e.
\* Variants: the body runs whatever the exit status; the command is a simple
\* command under -e; a failure skips the rest of the tick; a failure leads
\* to a restart of pgAdmin.
AfterReload_Unconditional(rc) == "reset"
AfterReload_ErrExit(rc) == ErrExit(rc, "reset")
AfterReload_SkipLiveness(rc) == IF rc = 0 THEN "reset" ELSE "wait"
AfterReload_RestartOnFail(rc) == IF rc = 0 THEN "reset" ELSE "restart"
AfterReload(rc) == IF rc = 0 THEN "reset" ELSE "live"

\* stat "${cluster_file}" exits 1 when the file is gone.
StatStatus(p) == IF p THEN 0 ELSE 1

\* [ ! -d /proc/$(cat $PGADMIN4_PIDFILE) ]
\* Variants: the test only asks whether a pid was recorded; the test looks
\* at a path that never exists.
IsAlive_Recorded(p) == p # NoPid
IsAlive_NoCat(p) == FALSE
IsAlive(p) == p \in ProcTable

\* echo $! > $PGADMIN4_PIDFILE
\* Variant: an existing record is not overwritten.
RecordPid_KeepOld(old, new) == IF old = NoPid THEN new ELSE old
RecordPid(old, new) == new

\* The polls of the run "unmodified up to the first poll, then written
\* once": the first poll, the poll after the write, the poll after that.
ScenAfterPoll(sc) ==
  CASE sc = "start"     -> "first"
    [] sc = "rewritten" -> "second"
    [] sc = "second"    -> "third"
    [] OTHER            -> IF sc = "first" THEN "first" ELSE "off"

TypeOK ==
  /\ pc \in PcValues
  /\ now \in 0..MaxTime
  /\ present \in BOOLEAN
  /\ mtime \in 0..MaxTime
  /\ watermark \in {NoFd} \cup (0..MaxTime)
  /\ pidfile \in 0..MaxPid
  /\ nextPid \in 1..(MaxPid + 1)
  /\ alive \subseteq 1..MaxPid
  /\ foreign \subseteq 1..MaxPid
  /\ tickReload \in {"none", "run", "ok", "fail"}
  /\ prevReload \in {"none", "ok", "fail"}
  /\ polled \in {NoPoll, NoFile} \cup (0..MaxTime)
  /\ prevPolled \in {NoPoll, NoFile} \cup (0..MaxTime)
  /\ wmAtCheck \in {NoFd} \cup (0..MaxTime)
  /\ allInc \in BOOLEAN
  /\ stale \in BOOLEAN
  /\ backdated \in BOOLEAN
  /\ startFailed \in BOOLEAN
  /\ bootFailure \in {"none", "setup", "reload"}
  /\ scen \in {"start", "first", "rewritten", "second", "third", "off"}

\* The container starts with the cluster file mounted or not; nothing of the
\* script has run.
Init ==
  /\ pc = "setup"
  /\ now = 0
  /\ present \in BOOLEAN
  /\ mtime = 0
  /\ watermark = NoFd
  /\ pidfile = NoPid
  /\ nextPid = 1
  /\ alive = {}
  /\ foreign = {}
  /\ tickReload = "none"
  /\ prevReload = "none"
  /\ polled = NoPoll
  /\ prevPolled = NoPoll
  /\ wmAtCheck = NoFd
  /\ allInc = TRUE
  /\ stale = present
  /\ backdated = FALSE
  /\ startFailed = FALSE
  /\ bootFailure = "none"
  /\ scen = IF present THEN "start" ELSE "off"

\* ------------------------------------------------------------------------
\* startScript (lines 254-266)

\* python3 ${PGADMIN_DIR}/setup.py
Setup(rc) ==
  /\ pc = "setup"
  /\ pc' = ErrExit(rc, "start")
  /\ bootFailure' = IF rc = 0 THEN bootFailure ELSE "setup"
  /\ UNCHANGED <<env, watermark, pidfile, nextPid, hist, stale, startFailed, scen>>

\* pgadmin4 &
Spawn ==
  /\ nextPid <= MaxPid
  /\ alive' = alive \cup {nextPid}
  /\ nextPid' = nextPid + 1

StartFirst ==
  /\ pc = "start"
  /\ Spawn
  /\ pc' = "bootRecord"
  /\ UNCHANGED <<now, present, mtime, backdated, foreign, watermark, pidfile,
                 hist, stale, boot, scen>>

\* pgadmin4 cannot be started at all (no such command, not executable): the
\* background job of line 262 ends at once; "&" reports nothing to the
\* script, which goes on to line 263.
StartFails ==
  /\ pc = "bootRecord"
  /\ LastStarted \in alive
  /\ alive' = alive \ {LastStarted}
  /\ startFailed' = TRUE
  /\ UNCHANGED <<pc, now, present, mtime, backdated, foreign, watermark,
                 pidfile, nextPid, hist, stale, bootFailure, scen>>

\* echo $! > $PGADMIN4_PIDFILE
BootRecord ==
  /\ pc = "bootRecord"
  /\ pidfile' = RecordPid(pidfile, LastStarted)
  /\ pc' = "bootReload"
  /\ UNCHANGED <<env, watermark, nextPid, hist, stale, boot, scen>>

\* loadServerCommand is invoked, with no test of any modification time, and
\* reads the cluster file.
BootReloadInvoke ==
  /\ pc = "bootReload"
  /\ pc' = "bootReloadRun"
  /\ stale' = FALSE
  /\ UNCHANGED <<env, watermark, pidfile, nextPid, hist, boot, scen>>

\* loadServerCommand returns; it is a simple command under -e.
BootReloadReturn(rc) ==
  /\ pc = "bootReloadRun"
  /\ pc' = ErrExit(rc, "openfd")
  /\ bootFailure' = IF rc = 0 THEN bootFailure ELSE "reload"
  /\ stale' = IF rc = 0 THEN stale ELSE present
  /\ UNCHANGED <<env, watermark, pidfile, nextPid, hist, startFailed, scen>>

\* ------------------------------------------------------------------------
\* reloadScript (lines 279-294)

\* exec {fd}<> <(:)  -- a new pipe, stamped with the current time
OpenFd ==
  /\ pc = "openfd"
  /\ watermark' = now
  /\ wmAtCheck' = now
  /\ pc' = "wait"
  /\ UNCHANGED <<env, pidfile, nextPid, tickReload, prevReload, polled,
                 prevPolled, allInc, stale, boot, scen>>

\* while read -r -t 5 -u "${fd}" || true; do if [ file -nt pipe ] && ...
\* The read times out, the test is made, and when it holds loadServerCommand
\* is invoked and reads the cluster file.
Poll ==
  /\ pc = "wait"
  /\ prevReload' = tickReload
  /\ prevPolled' = polled
  /\ polled' = IF present THEN mtime ELSE NoFile
  /\ wmAtCheck' = watermark
  /\ allInc' = (allInc /\ present /\ (polled = NoPoll \/ mtime > polled))
  /\ startFailed' = FALSE
  /\ scen' = ScenAfterPoll(scen)
  /\ IF NT(present, mtime, watermark)
       THEN /\ pc' = "reload"
            /\ tickReload' = "run"
            /\ stale' = FALSE
       ELSE /\ pc' = "live"
            /\ tickReload' = "none"
            /\ stale' = stale
  /\ UNCHANGED <<env, watermark, pidfile, nextPid, bootFailure>>

\* loadServerCommand returns with exit status rc.
ReloadReturn(rc) ==
  /\ pc = "reload"
  /\ pc' = AfterReload(rc)
  /\ tickReload' = IF rc = 0 THEN "ok" ELSE "fail"
  /\ stale' = IF rc = 0 THEN stale ELSE present
  /\ UNCHANGED <<env, watermark, pidfile, nextPid, prevReload, polled,
                 prevPolled, wmAtCheck, allInc, boot, scen>>

\* Variant: the marker takes the modification time of the cluster file.
ResetFd_StampFileTime ==
  /\ pc = "reset"
  /\ watermark' = mtime
  /\ pc' = "stat"
  /\ UNCHANGED <<env, pidfile, nextPid, hist, stale, boot, scen>>

\* exec {fd}>&- && exec {fd}<> <(:)  -- the pipe is replaced by a new one
ResetFd ==
  /\ pc = "reset"
  /\ watermark' = now
  /\ pc' = "stat"
  /\ UNCHANGED <<env, pidfile, nextPid, hist, stale, boot, scen>>

\* stat --format='Loaded shared servers dated %y' "${cluster_file}"
Stat ==
  /\ pc = "stat"
  /\ pc' = ErrExit(StatStatus(present), "live")
  /\ UNCHANGED <<env, watermark, pidfile, nextPid, hist, stale, boot, scen>>

\* if [ ! -d /proc/$(cat $PGADMIN4_PIDFILE) ]
Liveness ==
  /\ pc = "live"
  /\ pc' = IF IsAlive(pidfile) THEN "wait" ELSE "restart"
  /\ UNCHANGED <<env, watermark, pidfile, nextPid, hist, stale, boot, scen>>

\* pgadmin4 &
Restart ==
  /\ pc = "restart"
  /\ Spawn
  /\ pc' = "record"
  /\ UNCHANGED <<now, present, mtime, backdated, foreign, watermark, pidfile,
                 hist, stale, boot, scen>>

\* echo $! > $PGADMIN4_PIDFILE; echo "Restarting pgAdmin4"
Record ==
  /\ pc = "record"
  /\ pidfile' = RecordPid(pidfile, LastStarted)
  /\ pc' = "wait"
  /\ UNCHANGED <<env, watermark, nextPid, hist, stale, boot, scen>>

\* ------------------------------------------------------------------------
\* The environment, for as long as the script runs.

ClockTick ==
  /\ pc # "exited"
  /\ now < MaxTime
  /\ now' = now + 1
  /\ UNCHANGED <<pc, present, mtime, backdated, watermark, procs, hist, stale, boot, scen>>

\* The cluster file is written; the file system stamps it with the clock.
WriteArtifact ==
  /\ pc # "exited"
  /\ present' = TRUE
  /\ mtime' = now
  /\ backdated' = FALSE
  /\ stale' = TRUE
  /\ scen' = IF scen = "first" /\ now > mtime THEN "rewritten" ELSE "off"
  /\ UNCHANGED <<pc, now, watermark, procs, hist, boot>>

\* The cluster file is replaced by one with an older modification time.
TouchBack(t) ==
  /\ pc # "exited"
  /\ present
  /\ t < mtime
  /\ mtime' = t
  /\ backdated' = TRUE
  /\ scen' = "off"
  /\ UNCHANGED <<pc, now, present, watermark, procs, hist, stale, boot>>

\* The cluster file is removed.
RemoveArtifact ==
  /\ pc # "exited"
  /\ present
  /\ present' = FALSE
  /\ mtime' = 0
  /\ backdated' = FALSE
  /\ stale' = FALSE
  /\ scen' = "off"
  /\ UNCHANGED <<pc, now, watermark, procs, hist, boot>>

\* A managed process ends (this is also how a pgadmin4 that cannot start
\* shows: the background job is gone right away).
Die(p) ==
  /\ pc # "exited"
  /\ p \in alive
  /\ alive' = alive \ {p}
  /\ UNCHANGED <<pc, now, present, mtime, backdated, watermark, pidfile,
                 nextPid, foreign, hist, stale, boot, scen>>

\* The pid of a dead managed process is given to an unrelated process.
PidReuse(p) ==
  /\ pc # "exited"
  /\ p \in 1..LastStarted
  /\ p \notin ProcTable
  /\ foreign' = foreign \cup {p}
  /\ UNCHANGED <<pc, now, present, mtime, backdated, watermark, pidfile,
                 nextPid, alive, hist, stale, boot, scen>>

Next ==
  \/ \E rc \in {0, 1} : Setup(rc)
  \/ StartFirst
  \/ StartFails
  \/ BootRecord
  \/ BootReloadInvoke
  \/ \E rc \in {0, 1} : BootReloadReturn(rc)
  \/ OpenFd
  \/ Poll
  \/ \E rc \in {0, 1} : ReloadReturn(rc)
  \/ ResetFd
  \/ Stat
  \/ Liveness
  \/ Restart
  \/ Record
  \/ ClockTick
  \/ WriteArtifact
  \/ \E t \in 0..MaxTime : TouchBack(t)
  \/ RemoveArtifact
  \/ \E p \in 1..MaxPid : Die(p)
  \/ \E p \in 1..MaxPid : PidReuse(p)

Spec == Init /\ [][Next]_vars

\* ------------------------------------------------------------------------
\* Properties of the loop.

\* The positions of a tick after its reload section.
AfterReloadSection == {"live", "restart", "record", "wait"}

\* C1 (as stated): in a tick that invoked the reload command the watermark
\* is advanced in that tick whatever the exit status, and after a reload that
\* exited non-zero the next tick, finding the same modification time, invokes
\* no reload.
C1_Original ==
  /\ (tickReload \in {"ok", "fail"} /\ pc \in AfterReloadSection)
       => watermark > wmAtCheck
  /\ (prevReload = "fail" /\ polled >= 0 /\ polled = prevPolled)
       => tickReload = "none"

\* C1 (amended): the watermark is advanced in the tick of a reload that
\* exited zero and is left as it was by a reload that exited non-zero, which
\* does not end the script; the tick after a failed reload, finding the same
\* modification time, invokes the reload command again.
C1_WatermarkFollowsExitStatus ==
  /\ (tickReload = "ok" /\ pc \in AfterReloadSection \cup {"stat", "exited"})
       => watermark > wmAtCheck
  /\ tickReload = "fail" => (watermark = wmAtCheck /\ pc \in AfterReloadSection)
  /\ (prevReload = "fail" /\ polled >= 0 /\ polled = prevPolled)
       => tickReload # "none"

\* The reload command runs again in the tick after a failed reload, against
\* the same modification time.
C1_Witness ==
  /\ pc = "reload"
  /\ prevReload = "fail"
  /\ polled >= 0
  /\ polled = prevPolled

\* C2 (as stated): while every poll has seen a strictly greater modification
\* time than the poll before, each tick that observes such an increase
\* invokes the reload command (once per observed increase, never zero times).
C2_Original ==
  (allInc /\ prevPolled >= 0) => tickReload # "none"

\* C3: in the loop the reload command is invoked only in a tick whose poll
\* found the file strictly newer than the watermark; a tick that found it
\* equal, older or missing invokes no reload.
C3_ReloadOnlyWhenNewer ==
  /\ pc = "reload" <=> tickReload = "run"
  /\ tickReload # "none" => (polled >= 0 /\ polled > wmAtCheck)

\* A tick found the file exactly as old as the watermark and went on to the
\* liveness check without a reload.
C3_Witness ==
  /\ pc = "live"
  /\ tickReload = "none"
  /\ polled >= 0
  /\ polled = wmAtCheck

\* C4 (as stated): no update is missed.  When a tick whose reload succeeded
\* is over and the file has been written (stamped by the clock) since that
\* reload was invoked, the file is newer than the watermark, so that the next
\* tick reloads it.
C4_Original ==
  (pc = "wait" /\ tickReload = "ok" /\ present /\ stale /\ ~backdated)
    => mtime > watermark

\* C5: a liveness check that finds the recorded pid absent from the process
\* table goes on to start a process; the start is followed, in the same tick,
\* by the write of the new pid over the record, and then the tick ends.
\* There is no other way out of these steps: no limit and no delay.
C5_Step ==
  /\ (pc = "live" /\ pc' # "live" /\ pidfile \notin (alive \cup foreign))
       => pc' = "restart"
  /\ (pc = "restart" /\ pc' # "restart")
       => /\ pc' = "record"
          /\ nextPid' = nextPid + 1
          /\ alive' = alive \cup {nextPid}
  /\ (pc = "record" /\ pc' # "record")
       => /\ pc' = "wait"
          /\ pidfile' = nextPid - 1
          /\ pidfile' # pidfile

C5_RestartOnDeath == [][C5_Step]_vars

\* Two deaths have each been followed by a restart, and the record holds the
\* pid of the third process.
C5_Witness ==
  /\ pc = "wait"
  /\ nextPid - 1 >= 3
  /\ pidfile = nextPid - 1
  /\ alive = {pidfile}

\* C6 (as stated): whenever the pid record can be read, it holds the pid of
\* the most recently started managed process.
C6_Original ==
  pidfile # NoPid => pidfile = nextPid - 1

\* C6 (amended): the record holds the pid of the most recently started
\* managed process at every liveness check of the loop, and at every other
\* point where it can be read except between the start of a replacement
\* process (line 289) and the write of its pid (line 290), where a reader
\* still finds the pid of the process before.
C6_RecordIsLatestOutsideRestart ==
  /\ (pidfile # NoPid /\ pc # "record") => pidfile = nextPid - 1
  /\ pc = "live" => (pidfile # NoPid /\ pidfile = nextPid - 1)
  /\ pc = "record" => pidfile = nextPid - 2

\* A liveness check is about to read the record after a restart has
\* replaced the first process.
C6_Witness ==
  /\ pc = "live"
  /\ nextPid - 1 >= 2
  /\ pidfile = nextPid - 1

\* C7 (as stated): a poll that finds the modification time equal to or lower
\* than the poll before invokes no reload and leaves the watermark and the
\* record alone, whatever happened before; and a liveness check that finds
\* the managed process alive ends the tick with nothing changed.
C7_OriginalStep ==
  /\ (pc = "wait" /\ pc' # "wait" /\ present /\ polled >= 0 /\ mtime <= polled)
       => /\ pc' = "live"
          /\ tickReload' = "none"
          /\ watermark' = watermark
          /\ pidfile' = pidfile
          /\ nextPid' = nextPid
  /\ (pc = "live" /\ pc' # "live" /\ pidfile \in alive)
       => /\ pc' = "wait"
          /\ watermark' = watermark
          /\ pidfile' = pidfile
          /\ nextPid' = nextPid

C7_Original == [][C7_OriginalStep]_vars

\* C7 (amended): the same, for every history in which the reload of the tick
\* before, if there was one, exited zero.  (After a reload that exited
\* non-zero the unchanged file is reloaded again, see C1.)
C7_AmendedStep ==
  /\ (pc = "wait" /\ pc' # "wait" /\ present /\ polled >= 0 /\ mtime <= polled
        /\ tickReload # "fail")
       => /\ pc' = "live"
          /\ tickReload' = "none"
          /\ watermark' = watermark
          /\ pidfile' = pidfile
          /\ nextPid' = nextPid
  /\ (pc = "live" /\ pc' # "live" /\ pidfile \in alive)
       => /\ pc' = "wait"
          /\ watermark' = watermark
          /\ pidfile' = pidfile
          /\ nextPid' = nextPid

C7_NoEffectWhenUnchanged == [][C7_AmendedStep]_vars

\* After a tick whose reload exited zero, a poll found the modification time
\* unchanged, invoked no reload, found the process alive and ended the tick
\* with the watermark where it was.
C7_Witness ==
  /\ pc = "wait"
  /\ prevReload = "ok"
  /\ prevPolled >= 0
  /\ polled = prevPolled
  /\ tickReload = "none"
  /\ watermark = wmAtCheck
  /\ pidfile \in alive

\* C8: a reload command that exits non-zero in the loop does not end the
\* script: the step that receives the exit status goes to the liveness check
\* of the same tick, and the tick goes on from there to its restart and to
\* the wait for the next tick, never to the end of the script.
C8_Step ==
  /\ (pc = "reload" /\ tickReload' = "fail") => pc' = "live"
  /\ tickReload' = "fail" => pc' \in AfterReloadSection

C8_FailedReloadNotFatal == [][C8_Step]_vars

\* In a tick whose reload exited non-zero the liveness check found the
\* process dead and a new one has been started.
C8_Witness ==
  /\ pc = "record"
  /\ tickReload = "fail"

\* C9: a tick whose poll found no cluster file invokes no reload, leaves the
\* watermark unchanged, does not end the script, and goes to the liveness
\* check and the restart.
C9_Step ==
  /\ (pc = "wait" /\ pc' # "wait" /\ ~present)
       => (pc' = "live" /\ watermark' = watermark)
  /\ polled' = NoFile
       => /\ tickReload' = "none"
          /\ watermark' = wmAtCheck'
          /\ pc' \in AfterReloadSection

C9_MissingIsNoChange == [][C9_Step]_vars

\* In a tick that found no cluster file the liveness check found the process
\* dead and a new one has been started.
C9_Witness ==
  /\ pc = "record"
  /\ polled = NoFile
  /\ ~present

\* C10 (as stated): once the loop has been entered (the pipe of line 280 is
\* open) the script never ends by itself.
C10_Original ==
  watermark # NoFd => pc # "exited"

\* C11: the steps of a tick follow each other in the order poll (change
\* check), reload, re-opening of the pipe (watermark), liveness check,
\* restart, record; the liveness check is reached from the reload only when
\* the reload has returned, and the next poll starts only from the wait that
\* follows the liveness check or the record of a restart.
TickOrder ==
  {<<"wait", "reload">>, <<"wait", "live">>,
   <<"reload", "reset">>, <<"reload", "live">>,
   <<"reset", "stat">>, <<"stat", "live">>, <<"stat", "exited">>,
   <<"live", "restart">>, <<"live", "wait">>,
   <<"restart", "record">>, <<"record", "wait">>}

C11_Step ==
  /\ (pc \in {"wait", "reload", "reset", "stat", "live", "restart", "record"}
        /\ pc' # pc) => <<pc, pc'>> \in TickOrder
  /\ pc' \in {"live", "restart", "record"} => tickReload' # "run"
  /\ (pc # "wait" /\ pc' = "wait") => pc \in {"openfd", "live", "record"}

C11_TickOrder == [][C11_Step]_vars

\* A tick has gone through all its steps: a reload that succeeded, the new
\* pipe, the liveness check, and the start of a replacement process.
C11_Witness ==
  /\ pc = "record"
  /\ tickReload = "ok"
  /\ watermark > wmAtCheck

\* C12: once the pipe exists its modification time changes only in the step
\* that follows a reload which was invoked in this tick and exited zero:
\* not at the poll, not while the reload runs, not in a tick without reload,
\* not in the liveness check, the restart or the record.
C12_Step ==
  (watermark # NoFd /\ watermark' # watermark)
    => /\ pc = "reset"
       /\ tickReload = "ok"
       /\ wmAtCheck = watermark

C12_WatermarkOnlyAfterSuccess == [][C12_Step]_vars

\* The pipe has just been re-opened after a successful reload.
C12_Witness ==
  /\ pc = "stat"
  /\ tickReload = "ok"
  /\ watermark > wmAtCheck

\* C13: the watermark never decreases (the clock that stamps the pipe does
\* not run backwards).
C13_Step == watermark' >= watermark

C13_WatermarkMonotonic == [][C13_Step]_vars

\* The watermark has been advanced in two ticks in a row.
C13_Witness ==
  /\ pc = "live"
  /\ tickReload = "ok"
  /\ prevReload = "ok"
  /\ wmAtCheck > 0
  /\ watermark > wmAtCheck

\* C17: a managed process is started only by the boot command of line 262
\* or by the restart that follows a liveness check which found the recorded
\* pid absent from the process table, one process per tick; so at most one
\* managed process is alive at any time, and it is the last one started.
C17_Step ==
  /\ nextPid' # nextPid
       => /\ nextPid' = nextPid + 1
          /\ pc \in {"start", "restart"}
          /\ pc' \in {"bootRecord", "record"}
          /\ pidfile \notin alive
  /\ (pc # "restart" /\ pc' = "restart")
       => (pc = "live" /\ pidfile \notin (alive \cup foreign))
  /\ Cardinality(alive') <= 1
  /\ alive' \subseteq {nextPid' - 1}

C17_OneManagedProcess == [][C17_Step]_vars

\* A replacement process has been started, no pid has been reused, and the
\* replacement is the only managed process alive.
C17_Witness ==
  /\ pc = "record"
  /\ nextPid - 1 >= 2
  /\ foreign = {}
  /\ alive = {nextPid - 1}

\* C18: the poll, the reload (whatever its exit status), the re-opening of
\* the pipe and the stat start no process, do not lead to a start without a
\* liveness check, and leave the pid record alone; the liveness check, the
\* restart and the record invoke no reload and leave the watermark alone.
C18_Step ==
  /\ pc \in {"wait", "reload", "reset", "stat"}
       => /\ pidfile' = pidfile
          /\ nextPid' = nextPid
          /\ pc' \notin {"restart", "record"}
  /\ pc \in {"live", "restart", "record"}
       => /\ watermark' = watermark
          /\ tickReload' = tickReload
          /\ pc' \notin {"reload", "reset", "stat"}

C18_SeparateEffects == [][C18_Step]_vars

\* A tick is over in which the reload failed and a replacement process was
\* started: the record holds the new pid, the watermark is where it was.
C18_Witness ==
  /\ pc = "wait"
  /\ tickReload = "fail"
  /\ nextPid - 1 >= 2
  /\ pidfile = nextPid - 1
  /\ watermark = wmAtCheck

\* C14 (as stated): the file has modification time T0 at the start and is
\* not modified: the first tick (and each tick until the file is written)
\* invokes no reload; the file is then written once, with T1 > T0: the next
\* tick invokes the reload, after its reload section the watermark is at
\* least T1, and the tick after that invokes no reload.
C14_Original ==
  /\ scen = "first" => tickReload = "none"
  /\ scen = "second" => tickReload # "none"
  /\ (scen = "second" /\ pc \in AfterReloadSection) => watermark >= mtime
  /\ scen = "third" => tickReload = "none"

\* C15 (as stated): when the first pgadmin4 could not be started, the script
\* does not enter the loop (the pipe of line 280 is never opened).
C15_Original ==
  startFailed => watermark = NoFd

\* C16: at boot the reload command is invoked once, after the setup, the
\* start of the first process and the record of its pid, whatever the state
\* of the cluster file, and the loop is entered only after it returned; a
\* boot reload that exits non-zero ends the script before the pipe is opened,
\* with the first process started and recorded; a setup that exits non-zero
\* ends the script before any process is started.
C16_Step ==
  /\ (pc = "bootReload" /\ pc' # pc) => pc' = "bootReloadRun"
  /\ (pc # "bootReloadRun" /\ pc' = "bootReloadRun")
       => /\ pc = "bootReload"
          /\ pidfile = 1
          /\ nextPid = 2
          /\ bootFailure = "none"
  /\ (pc # "openfd" /\ pc' = "openfd") => pc = "bootReloadRun"
  /\ (watermark = NoFd /\ watermark' # NoFd)
       => (pc = "openfd" /\ bootFailure = "none" /\ polled = NoPoll)
  /\ bootFailure' = "reload"
       => /\ pc' = "exited"
          /\ watermark' = NoFd
          /\ pidfile' = 1
          /\ nextPid' = 2
  /\ bootFailure' = "setup"
       => /\ pc' = "exited"
          /\ watermark' = NoFd
          /\ nextPid' = 1

C16_BootReload == [][C16_Step]_vars

\* The boot reload exited non-zero: the script has ended before the loop,
\* and the first process, started and recorded, is alive with no supervisor.
C16_Witness ==
  /\ pc = "exited"
  /\ bootFailure = "reload"
  /\ watermark = NoFd
  /\ pidfile = 1
  /\ alive = {1}

====
